---- MODULE Spec2Model ----
(***************************************************************************)
(* ServerStriker (src/main.py): the monitoring daemon's loop, its probes,   *)
(* the tailer of the agent's own log file, the webhook dispatch, and the    *)
(* CLI commands that write the configuration.                               *)
(*                                                                          *)
(* Files are modelled by their contents: LOG_FILE as a sequence of lines    *)
(* (each with a byte length and the place of a keyword in it), STATE_FILE   *)
(* as the text it holds, CONFIG_FILE as the loaded JSON object or absent.   *)
(* Time is in seconds.                                                      *)
(***************************************************************************)
EXTENDS Integers, Sequences, FiniteSets, TLC

(* ------------------------------ bounds --------------------------------- *)
\* iterations of the while loop started, over all runs of the process
MaxIter == 2
\* failures of external calls injected, over the whole behaviour
MaxFaults == 2
\* lines other writers append to LOG_FILE
MaxAppends == 1
\* rotations of LOG_FILE
MaxRotations == 1
\* unclean kills of the daemon
MaxKills == 2
\* characters in an answer typed at a prompt of the CLI
MaxInput == 3
\* characters of the services string the CLI stores
MaxStored == 4

(* ------------------------- program constants --------------------------- *)
CHECK_INTERVAL == 300
\* timedelta(days=1), in seconds
DAY == 86400
\* "usage > 80"
THRESHOLD == 80
\* "failed_logins > 5"
LOGIN_LIMIT == 5
\* psutil.cpu_percent(interval=1) blocks for one second
CPU_SAMPLE == 1

(* ------------------------------ strings -------------------------------- *)
\* A string is a sequence of one-character strings.
SPACE == " "
COMMA == ","

RECURSIVE LStrip(_)
LStrip(s) == IF s # <<>> /\ Head(s) = SPACE THEN LStrip(Tail(s)) ELSE s

RECURSIVE RStrip(_)
RStrip(s) ==
    IF s # <<>> /\ s[Len(s)] = SPACE THEN RStrip(SubSeq(s, 1, Len(s) - 1)) ELSE s

\* str.strip()
Strip(s) == RStrip(LStrip(s))

\* str.split(","): the pieces between commas, empty ones included
RECURSIVE SplitComma(_, _)
SplitComma(s, cur) ==
    IF s = <<>> THEN <<cur>>
    ELSE IF Head(s) = COMMA THEN <<cur>> \o SplitComma(Tail(s), <<>>)
    ELSE SplitComma(Tail(s), Append(cur, Head(s)))

RECURSIVE StripNonEmpty(_)
StripNonEmpty(parts) ==
    IF parts = <<>> THEN <<>>
    ELSE IF Strip(Head(parts)) # <<>>
         THEN <<Strip(Head(parts))>> \o StripNonEmpty(Tail(parts))
         ELSE StripNonEmpty(Tail(parts))

\* _split_services
SplitServices(services_str) ==
    IF services_str = <<>> THEN <<>>
    ELSE StripNonEmpty(SplitComma(services_str, <<>>))

(* --------------------------- configuration ----------------------------- *)
\* load_config() returns None when CONFIG_FILE is absent or unreadable
NoConfig == [present |-> FALSE, webhook_url |-> <<>>, services |-> <<>>]

MkConfig(url, svcs) == [present |-> TRUE, webhook_url |-> url, services |-> svcs]

\* (a variant that takes any configuration as present)
NeverMissing(c) == FALSE

\* "if not config": None and the empty dict are both falsy; a present config
\* written by init_config always has its three keys
ConfigMissing(c) == ~c.present

(* ------------------------------ findings ------------------------------- *)
\* A finding is the display string; kind names its format, n the number and
\* s the service name formatted into it.
Finding(k, n, s) == [kind |-> k, n |-> n, s |-> s]

\* The separator "\n".join puts between two findings
NL == Finding("\n", 0, <<>>)

\* "\n".join(all_messages)
RECURSIVE Join(_)
Join(msgs) ==
    IF msgs = <<>> THEN <<>>
    ELSE IF Len(msgs) = 1 THEN msgs
    ELSE <<Head(msgs), NL>> \o Join(Tail(msgs))

(* ------------------------------ LOG_FILE ------------------------------- *)
\* The texts log_message is called with
AgentMsgs ==
    {"started", "config_missing", "webhook_unset", "webhook_error",
     "service_error", "auth_error", "ssh_cleared", "perm_denied",
     "clear_error", "syslog_error", "updates_error", "units_error",
     "config_error"}

\* Those that report a failure of the agent's own operation
OpErrorMsgs == AgentMsgs \ {"started", "ssh_cleared"}

\* Whether the text holds "error", "critical" or "failed" in any case:
\* "Webhook error: ..", "Error checking ..", "Error reading ..",
\* "An error occurred ..", "Error loading config: .."
HasKeyword(msg) ==
    msg \in {"webhook_error", "service_error", "auth_error", "clear_error",
             "syslog_error", "updates_error", "units_error", "config_error"}

\* A line of the file: len bytes long, the keyword (if any) ending at byte kw.
\* log_message writes "[timestamp] message\n": two units, the message second.
LogEntry(id, msg) ==
    [id |-> id, len |-> 2, kw |-> IF HasKeyword(msg) THEN 2 ELSE 0, msg |-> msg]

\* log_message: append, or print instead on PermissionError
LogMessage(file, writable, id, msg) ==
    IF writable THEN Append(file, LogEntry(id, msg)) ELSE file

RECURSIVE LogAll(_, _, _, _)
LogAll(file, writable, id, msgs) ==
    IF msgs = <<>> THEN file
    ELSE LogAll(LogMessage(file, writable, id, Head(msgs)), writable, id + 1, Tail(msgs))

\* os.path.getsize
RECURSIVE FileSize(_)
FileSize(file) == IF file = <<>> THEN 0 ELSE Head(file).len + FileSize(Tail(file))

\* f.seek(pos); for line in f: the lines from byte pos on. A position inside a
\* line yields the rest of that line (skip bytes of it are lost).
RECURSIVE LinesFrom(_, _, _)
LinesFrom(file, start, pos) ==
    IF file = <<>> THEN <<>>
    ELSE LET l == Head(file)
             end == start + l.len
         IN  IF end <= pos THEN LinesFrom(Tail(file), end, pos)
             ELSE <<[line |-> l, skip |-> IF pos > start THEN pos - start ELSE 0]>>
                  \o LinesFrom(Tail(file), end, pos)

\* f.tell() after the loop: a seek past the end reads nothing and stays there
TellAfter(file, pos) == IF pos >= FileSize(file) THEN pos ELSE FileSize(file)

\* "error" in low or "critical" in low or "failed" in low, on what was read
Interesting(item) == item.line.kw > item.skip

RECURSIVE ErrorFindings(_)
ErrorFindings(items) ==
    IF items = <<>> THEN <<>>
    ELSE IF Interesting(Head(items))
         THEN <<Finding("syserr", Head(items).line.id, <<>>)>> \o ErrorFindings(Tail(items))
         ELSE ErrorFindings(Tail(items))

(* ----------------------------- STATE_FILE ------------------------------ *)
\* What STATE_FILE holds: nothing (missing), the empty text, a number's
\* digits, some other text, or a file the process may not read.
StateMissing == [kind |-> "missing", val |-> 0]
StateEmpty == [kind |-> "empty", val |-> 0]
StateInt(n) == [kind |-> "int", val |-> n]
StateText == [kind |-> "text", val |-> 0]
StateUnreadable == [kind |-> "unreadable", val |-> 0]

\* read_last_position: int(f.read().strip() or "0"), 0 on FileNotFoundError
\* and ValueError
read_last_position(sf) == IF sf.kind = "int" THEN sf.val ELSE 0

\* a PermissionError is not among the exceptions read_last_position catches
ReadPositionRaises(sf) == sf.kind = "unreadable"

\* "if file_size < last_position: last_position = 0  # rotated"
StartPosition(file_size, last_position) ==
    IF file_size < last_position THEN 0 ELSE last_position

\* Path(STATE_FILE).touch(exist_ok=True) in ensure_dirs
Touch(sf) == IF sf.kind = "missing" THEN StateEmpty ELSE sf

(* ------------------------------- probes -------------------------------- *)
\* (a variant that alerts at the threshold already)
AtThreshold(usage, show) ==
    IF usage >= THRESHOLD \/ show THEN <<Finding("cpu", usage, <<>>)>> ELSE <<>>

check_cpu_usage(usage, show) ==
    IF usage > THRESHOLD \/ show THEN <<Finding("cpu", usage, <<>>)>> ELSE <<>>

check_memory_usage(usage, show) ==
    IF usage > THRESHOLD \/ show THEN <<Finding("mem", usage, <<>>)>> ELSE <<>>

check_disk_usage(usage, show) ==
    IF usage > THRESHOLD \/ show THEN <<Finding("disk", usage, <<>>)>> ELSE <<>>

\* (a variant that reports a service that is down in verbose mode only)
RECURSIVE OnlyVerbose(_, _, _, _, _)
OnlyVerbose(services, out, bad, show, i) ==
    IF i > Len(services) THEN <<>>
    ELSE (IF i = bad \/ ~show THEN <<>>
          ELSE IF out[i] # "active" THEN <<Finding("down", 0, services[i])>>
          ELSE <<Finding("up", 0, services[i])>>)
         \o OnlyVerbose(services, out, bad, show, i + 1)

\* The loop of check_running_services over services[i..]: out[i] is what
\* systemctl is-active printed for the i-th service, bad the index of the
\* service whose subprocess.run raised (0: none)
RECURSIVE ServiceFindings(_, _, _, _, _)
ServiceFindings(services, out, bad, show, i) ==
    IF i > Len(services) THEN <<>>
    ELSE (IF i = bad THEN <<>>
          ELSE IF out[i] # "active" THEN <<Finding("down", 0, services[i])>>
          ELSE IF show THEN <<Finding("up", 0, services[i])>>
          ELSE <<>>)
         \o ServiceFindings(services, out, bad, show, i + 1)

\* auth.log: each line holds "sshd" or not, "Failed password" or not
AuthLine(sshd, failed) == [sshd |-> sshd, failed |-> failed]

\* grep "Failed password" | len(splitlines())
RECURSIVE check_security_logs(_)
check_security_logs(auth) ==
    IF auth = <<>> THEN 0
    ELSE (IF Head(auth).failed THEN 1 ELSE 0) + check_security_logs(Tail(auth))

\* [line for line in lines if "sshd" not in line]
RECURSIVE FilteredLines(_)
FilteredLines(auth) ==
    IF auth = <<>> THEN <<>>
    ELSE IF Head(auth).sshd THEN FilteredLines(Tail(auth))
    ELSE <<Head(auth)>> \o FilteredLines(Tail(auth))

\* check_pending_updates, given the number of lines with "/" in apt's output
check_pending_updates(n) == IF n > 0 THEN <<Finding("updates", n, <<>>)>> ELSE <<>>

\* check_services_status, given the number of failed units listed
check_services_status(n) == IF n > 0 THEN <<Finding("units", n, <<>>)>> ELSE <<>>

(* ------------------------------- state --------------------------------- *)
VARIABLES
    pc,                 \* where the daemon process is; "stopped": no process
    all_messages,       \* run_daemon's list of this iteration
    last_daily_check,   \* run_daemon's local
    tail,               \* check_system_errors' locals: messages, f.tell(), the offset it found
    iter,               \* iterations this process has started
    now,                \* the wall clock, in seconds
    config,             \* CONFIG_FILE
    logFile,            \* LOG_FILE
    logWritable,        \* whether the process may append to LOG_FILE
    stateFile,          \* STATE_FILE
    authLog,            \* /var/log/auth.log
    nextId,             \* lines written to LOG_FILE so far, plus one
    nfaults, appends, rotations, kills,   \* what the environment has done
    calls,              \* send_webhook calls of this iteration
    posts,              \* requests.post calls of this iteration
    posted,             \* the message of this iteration's POST
    postedOk,           \* whether that POST succeeded
    deliveredIds,       \* ids of the log lines in messages POSTed with success
    redelivered,        \* those POSTed with success more than once
    ext,                \* the extended phase in this iteration: no, running, done
    lastExtEnd,         \* when this process last ended an extended phase, or -1
    ran,                \* the probes called in this iteration, in order
    prevSize, lastSize, \* LOG_FILE's size at the last two tailer reads, or -1
    readFrom,           \* the position the last tailer read started from
    consumed,           \* what the tailer reads took, in order
    due,                \* the lines that were in LOG_FILE at some tailer read
    seen,               \* how many lines of the current LOG_FILE are in due
    raised,             \* whether the last check_system_errors caught an exception
    answer              \* what the outside answered to the last psutil or systemctl is-active probe

procVars == <<pc, all_messages, last_daily_check, tail, iter>>
fileVars == <<config, logFile, logWritable, stateFile, authLog, nextId>>
envVars == <<now, nfaults, appends, rotations, kills>>
sendVars == <<calls, posts, posted, postedOk, deliveredIds, redelivered>>
phaseVars == <<ext, lastExtEnd, ran>>
readVars == <<prevSize, lastSize, readFrom, consumed, due, seen>>
tailVars == <<readVars, raised>>
vars == <<procVars, fileVars, envVars, sendVars, phaseVars, tailVars, answer>>

NoTail == [messages |-> <<>>, pos |-> 0, stored |-> 0]

\* The answer of a psutil sample, and those of systemctl is-active for the
\* services of the configuration (bad: the one whose subprocess.run raised)
NoAnswer == [probe |-> "none"]
Sampled(p, usage) == [probe |-> p, usage |-> usage]
Answered(p, services, out, bad) ==
    [probe |-> p, services |-> services, out |-> out, bad |-> bad]

(* ---------------------------- environments ----------------------------- *)
\* What the outside world may answer: the usage samples, systemctl's answers,
\* the counts of upgradable packages and failed units, the POST's outcomes,
\* how long an iteration's sleep lasts, whether an external call may fail,
\* and the files the daemon starts with.
ServicesNM == <<"n", ",", " ", "m">>
UrlU == <<"u">>

SixFailed ==
    <<AuthLine(TRUE, TRUE), AuthLine(TRUE, TRUE), AuthLine(TRUE, TRUE),
      AuthLine(TRUE, TRUE), AuthLine(TRUE, TRUE), AuthLine(TRUE, TRUE),
      AuthLine(TRUE, FALSE), AuthLine(FALSE, FALSE)>>

\* One failed login fewer: five lines with "Failed password"
FiveFailed == Tail(SixFailed)

\* time.sleep(CHECK_INTERVAL) returns after at least CHECK_INTERVAL seconds
SleepTimes == {CHECK_INTERVAL, DAY - 2 * CPU_SAMPLE, DAY - CPU_SAMPLE}

\* A healthy host: nothing fails, no probe has anything to report
CalmEnv ==
    [usage |-> {THRESHOLD},
     svc |-> {"active"},
     updates |-> {0},
     units |-> {0},
     post |-> {"ok"},
     sleep |-> SleepTimes,
     fail |-> {FALSE},
     crash |-> {FALSE},
     configs |-> {MkConfig(UrlU, <<>>)},
     auths |-> {SixFailed},
     writable |-> {TRUE},
     states |-> {StateMissing}]

\* A busy host: every probe may have something to report, nothing fails
BusyEnv ==
    [CalmEnv EXCEPT !.usage = {THRESHOLD, THRESHOLD + 1},
                    !.svc = {"active", "inactive"},
                    !.updates = {0, 2},
                    !.units = {0, 1},
                    !.sleep = {CHECK_INTERVAL},
                    !.configs = {MkConfig(UrlU, <<"n">>)}]

\* A host where the external calls that the code guards may fail
CaughtEnv ==
    [CalmEnv EXCEPT !.svc = {"active", "inactive"},
                    !.post = {"ok", "fail"},
                    !.fail = BOOLEAN,
                    !.configs = {NoConfig, MkConfig(<<>>, <<"n">>), MkConfig(UrlU, <<"n">>)},
                    !.writable = BOOLEAN]

\* A host with two services to watch, where the guarded calls may fail
ServicesEnv ==
    [CalmEnv EXCEPT !.svc = {"active", "inactive"},
                    !.sleep = {CHECK_INTERVAL},
                    !.fail = BOOLEAN,
                    !.configs = {MkConfig(UrlU, ServicesNM)}]

\* A healthy host whose STATE_FILE holds something that is no offset: nothing,
\* text that is no number, a negative number, or a file that cannot be read
StateEnv ==
    [CalmEnv EXCEPT !.states = {StateEmpty, StateText, StateInt(-2), StateUnreadable}]

\* A host where any external call may fail, the psutil samples included
FaultEnv ==
    [CaughtEnv EXCEPT !.crash = BOOLEAN,
                      !.configs = {NoConfig, MkConfig(UrlU, <<"n">>)}]

\* A host with six or with five failed logins in auth.log, where the guarded
\* calls may fail
LoginsEnv ==
    [CalmEnv EXCEPT !.auths = {SixFailed, FiveFailed},
                    !.fail = BOOLEAN]

\* Whether the next external call may fail
MayFail(E) == IF nfaults < MaxFaults THEN E.fail ELSE {FALSE}

\* Whether the next psutil sample may fail
MayCrash(E) == IF nfaults < MaxFaults THEN E.crash ELSE {FALSE}

Bump(failed) == nfaults' = nfaults + (IF failed THEN 1 ELSE 0)

(* -------------------------------- Init --------------------------------- *)
InitOf(E) ==
    /\ pc = "stopped"
    /\ all_messages = <<>>
    /\ last_daily_check = 0
    /\ tail = NoTail
    /\ iter = 0
    /\ now = DAY
    /\ config \in E.configs
    /\ logFile = <<>>
    /\ logWritable \in E.writable
    /\ stateFile \in E.states
    /\ authLog \in E.auths
    /\ nextId = 1
    /\ nfaults = 0 /\ appends = 0 /\ rotations = 0 /\ kills = 0
    /\ calls = 0 /\ posts = 0 /\ posted = <<>> /\ postedOk = FALSE
    /\ deliveredIds = {} /\ redelivered = {}
    /\ ext = "no" /\ lastExtEnd = -1 /\ ran = <<>>
    /\ prevSize = -1 /\ lastSize = -1 /\ readFrom = 0
    /\ consumed = <<>> /\ due = <<>> /\ seen = 0 /\ raised = FALSE
    /\ answer = NoAnswer

(* ------------------------------ run_daemon ----------------------------- *)
\* (a variant that puts the new findings first)
Prepend(list, more) == more \o list

\* all_messages.extend(more)
Extend(list, more) == list \o more

\* log_message(msgs[1]); log_message(msgs[2]); ...
Log(msgs) ==
    /\ logFile' = LogAll(logFile, logWritable, nextId, msgs)
    /\ nextId' = nextId + (IF logWritable THEN Len(msgs) ELSE 0)

\* (a variant that starts the day at the daemon's start)
NoBackdate(t) == t

\* last_daily_check = datetime.now() - timedelta(days=1)
InitialDailyCheck(t) == t - DAY

\* ensure_dirs(); log_message("ServerStriker daemon started."); the local
Start ==
    /\ pc = "stopped"
    /\ stateFile' = Touch(stateFile)
    /\ Log(<<"started">>)
    /\ last_daily_check' = InitialDailyCheck(now)
    /\ pc' = "loop"
    /\ iter' = 0
    /\ lastExtEnd' = -1
    /\ UNCHANGED <<all_messages, tail, config, logWritable, authLog, envVars,
                   sendVars, ext, ran, tailVars>>
    /\ UNCHANGED answer

\* (a variant that keeps the findings of a failed delivery for the next one)
RetryingBeginIteration ==
    /\ pc = "loop"
    /\ iter < MaxIter
    /\ all_messages' = IF posts = 1 /\ ~postedOk THEN all_messages ELSE <<>>
    /\ iter' = iter + 1
    /\ pc' = "cpu"
    /\ calls' = 0 /\ posts' = 0 /\ posted' = <<>> /\ postedOk' = FALSE
    /\ ext' = "no" /\ ran' = <<>>
    /\ UNCHANGED <<last_daily_check, tail, fileVars, envVars, deliveredIds,
                   redelivered, lastExtEnd, tailVars>>
    /\ UNCHANGED answer

\* while True: all_messages = []
BeginIteration ==
    /\ pc = "loop"
    /\ iter < MaxIter
    /\ all_messages' = <<>>
    /\ iter' = iter + 1
    /\ pc' = "cpu"
    /\ calls' = 0 /\ posts' = 0 /\ posted' = <<>> /\ postedOk' = FALSE
    /\ ext' = "no" /\ ran' = <<>>
    /\ UNCHANGED <<last_daily_check, tail, fileVars, envVars, deliveredIds,
                   redelivered, lastExtEnd, tailVars>>
    /\ UNCHANGED answer

\* (a variant that goes from the frequent checks to the log scan, whatever
\* the time)
ScanEveryCycle(p) ==
    CASE p = "cpu" -> "mem" [] p = "mem" -> "disk" [] p = "disk" -> "svc"
      [] p = "svc" -> "syserr"
      [] p = "dcpu" -> "dmem" [] p = "dmem" -> "ddisk" [] p = "ddisk" -> "dsvc"
      [] p = "dsvc" -> "sec"

\* The statement after a probe at pc
After(p) ==
    CASE p = "cpu" -> "mem" [] p = "mem" -> "disk" [] p = "disk" -> "svc"
      [] p = "svc" -> "gate"
      [] p = "dcpu" -> "dmem" [] p = "dmem" -> "ddisk" [] p = "ddisk" -> "dsvc"
      [] p = "dsvc" -> "sec"

\* An exception nothing catches ends run_daemon, and with it the process
Uncaught(failed) ==
    /\ pc' = "crashed"
    /\ Bump(failed)
    /\ UNCHANGED <<all_messages, last_daily_check, tail, iter, fileVars, now,
                   appends, rotations, kills, sendVars, ext, lastExtEnd, tailVars>>
    /\ UNCHANGED answer

\* all_messages.extend(check_cpu_usage()) and (True)
CheckCpu(E) ==
    /\ pc \in {"cpu", "dcpu"}
    /\ ran' = Append(ran, pc)
    /\ \E failed \in MayCrash(E), usage \in E.usage :
         IF failed THEN Uncaught(failed)
         ELSE /\ all_messages' = Extend(all_messages, check_cpu_usage(usage, pc = "dcpu"))
              /\ answer' = Sampled(pc, usage)
              /\ now' = now + CPU_SAMPLE
              /\ pc' = After(pc)
              /\ UNCHANGED <<last_daily_check, tail, iter, fileVars, nfaults, appends,
                             rotations, kills, sendVars, ext, lastExtEnd, tailVars>>

CheckMemory(E) ==
    /\ pc \in {"mem", "dmem"}
    /\ ran' = Append(ran, pc)
    /\ \E failed \in MayCrash(E), usage \in E.usage :
         IF failed THEN Uncaught(failed)
         ELSE /\ all_messages' = Extend(all_messages, check_memory_usage(usage, pc = "dmem"))
              /\ answer' = Sampled(pc, usage)
              /\ pc' = After(pc)
              /\ UNCHANGED <<last_daily_check, tail, iter, fileVars, envVars,
                             sendVars, ext, lastExtEnd, tailVars>>

CheckDisk(E) ==
    /\ pc \in {"disk", "ddisk"}
    /\ ran' = Append(ran, pc)
    /\ \E failed \in MayCrash(E), usage \in E.usage :
         IF failed THEN Uncaught(failed)
         ELSE /\ all_messages' = Extend(all_messages, check_disk_usage(usage, pc = "ddisk"))
              /\ answer' = Sampled(pc, usage)
              /\ pc' = After(pc)
              /\ UNCHANGED <<last_daily_check, tail, iter, fileVars, envVars,
                             sendVars, ext, lastExtEnd, tailVars>>

\* load_config() in a process: the object, or None after an exception
\* (which it logs)
LoadFailures(E) == IF TRUE \in MayFail(E) THEN {FALSE, TRUE} ELSE {FALSE}

\* all_messages.extend(check_running_services()) and (True)
CheckRunningServices(E) ==
    /\ pc \in {"svc", "dsvc"}
    /\ ran' = Append(ran, pc)
    /\ pc' = After(pc)
    /\ \E cfgFailed \in LoadFailures(E) :
         LET cfg == IF cfgFailed THEN NoConfig ELSE config
             services == IF ConfigMissing(cfg) THEN <<>> ELSE SplitServices(cfg.services)
         IN  \E out \in [1 .. Len(services) -> E.svc],
                bad \in (IF cfgFailed \/ ~(TRUE \in MayFail(E)) THEN {0}
                         ELSE 0 .. Len(services)) :
               /\ all_messages' =
                      Extend(all_messages, ServiceFindings(services, out, bad, pc = "dsvc", 1))
               /\ Log((IF cfgFailed THEN <<"config_error">> ELSE <<>>)
                      \o (IF bad > 0 THEN <<"service_error">> ELSE <<>>))
               /\ Bump(cfgFailed \/ bad > 0)
               /\ answer' = Answered(pc, services, out, bad)
    /\ UNCHANGED <<last_daily_check, tail, iter, config, logWritable, stateFile,
                   authLog, now, appends, rotations, kills, sendVars, ext,
                   lastExtEnd, tailVars>>

\* (a variant with a strict comparison)
StrictlyDue(t, last) == t - last > DAY

\* datetime.now() - last_daily_check >= timedelta(days=1)
Due(t, last) == t - last >= DAY

\* "if datetime.now() - last_daily_check >= timedelta(days=1):"
Gate ==
    /\ pc = "gate"
    /\ IF Due(now, last_daily_check)
       THEN pc' = "dcpu" /\ ext' = "running"
       ELSE pc' = "dispatch" /\ ext' = ext
    /\ UNCHANGED <<all_messages, last_daily_check, tail, iter, fileVars, envVars,
                   sendVars, lastExtEnd, ran, tailVars>>
    /\ UNCHANGED answer

\* (a variant that alerts at the limit already)
AtLimit(failed_logins) == failed_logins >= LOGIN_LIMIT

\* "if failed_logins > 5:"
TooManyLogins(failed_logins) == failed_logins > LOGIN_LIMIT

\* failed_logins = check_security_logs(); the alert when there are too many
CheckSecurity(E) ==
    /\ pc = "sec"
    /\ ran' = Append(ran, pc)
    /\ \E failed \in MayFail(E) :
         LET failed_logins == IF failed THEN 0 ELSE check_security_logs(authLog)
         IN  /\ Log(IF failed THEN <<"auth_error">> ELSE <<>>)
             /\ Bump(failed)
             /\ IF TooManyLogins(failed_logins)
                THEN /\ all_messages' = Append(all_messages, Finding("security", failed_logins, <<>>))
                     /\ pc' = "clear"
                ELSE /\ all_messages' = all_messages
                     /\ pc' = "syserr"
    /\ UNCHANGED <<last_daily_check, tail, iter, config, logWritable, stateFile,
                   authLog, now, appends, rotations, kills, sendVars, ext,
                   lastExtEnd, tailVars>>
    /\ UNCHANGED answer

\* clear_ssh_attempts(): rewrite auth.log without its sshd lines; a
\* PermissionError or another exception is logged and leaves the file
ClearOutcomes(E) ==
    {"ok"} \cup (IF TRUE \in MayFail(E) THEN {"denied", "error"} ELSE {})

clear_ssh_attempts(E) ==
    /\ pc = "clear"
    /\ ran' = Append(ran, pc)
    /\ pc' = "syserr"
    /\ \E outcome \in ClearOutcomes(E) :
         /\ authLog' = IF outcome = "ok" THEN FilteredLines(authLog) ELSE authLog
         /\ Log(<<CASE outcome = "ok" -> "ssh_cleared"
                    [] outcome = "denied" -> "perm_denied"
                    [] outcome = "error" -> "clear_error">>)
         /\ Bump(outcome # "ok")
    /\ UNCHANGED <<all_messages, last_daily_check, tail, iter, config, logWritable,
                   stateFile, now, appends, rotations, kills, sendVars, ext,
                   lastExtEnd, tailVars>>
    /\ UNCHANGED answer

RECURSIVE Ids(_)
Ids(lines) == IF lines = <<>> THEN <<>> ELSE <<Head(lines).id>> \o Ids(Tail(lines))

RECURSIVE Taken(_)
Taken(items) ==
    IF items = <<>> THEN <<>>
    ELSE <<[id |-> Head(items).line.id, skip |-> Head(items).skip]>> \o Taken(Tail(items))

\* check_system_errors up to the end of "for line in f": the size, the stored
\* position, the rotation test, the read. An exception on the way (also from
\* seek, for a negative position) is logged and ends the call with the
\* messages found until then.
ReadLog(E) ==
    /\ pc = "syserr"
    /\ ran' = Append(ran, pc)
    /\ LET file_size == FileSize(logFile)
           stored == read_last_position(stateFile)
           last_position == StartPosition(file_size, stored)
           raises == ReadPositionRaises(stateFile) \/ last_position < 0
           items == IF raises THEN <<>> ELSE LinesFrom(logFile, 0, last_position)
       IN  \E failed \in (IF raises THEN {TRUE} ELSE MayFail(E)),
              k \in 0 .. Len(items) :
             /\ prevSize' = lastSize
             /\ lastSize' = file_size
             /\ readFrom' = last_position
             /\ due' = due \o Ids(SubSeq(logFile, seen + 1, Len(logFile)))
             /\ seen' = Len(logFile)
             /\ raised' = failed
             /\ IF failed
                THEN /\ consumed' = consumed \o Taken(SubSeq(items, 1, k))
                     /\ all_messages' = Extend(all_messages, ErrorFindings(SubSeq(items, 1, k)))
                     /\ tail' = NoTail
                     /\ Log(<<"syslog_error">>)
                     /\ Bump(~raises)
                     /\ pc' = "upd"
                ELSE /\ k = Len(items)
                     /\ consumed' = consumed \o Taken(items)
                     /\ all_messages' = all_messages
                     /\ tail' = [messages |-> ErrorFindings(items),
                                 pos |-> TellAfter(logFile, last_position),
                                 stored |-> stored]
                     /\ UNCHANGED <<logFile, nextId, nfaults>>
                     /\ pc' = "savepos"
    /\ UNCHANGED <<last_daily_check, iter, config, logWritable, stateFile, authLog,
                   now, appends, rotations, kills, sendVars, ext, lastExtEnd>>
    /\ UNCHANGED answer

\* save_last_position(f.tell()), first half: ensure_dirs() and
\* open(STATE_FILE, "w"), which empties the file
SaveOpen(E) ==
    /\ pc = "savepos"
    /\ \E failed \in MayFail(E) :
         /\ raised' = failed
         /\ IF failed
            THEN /\ all_messages' = Extend(all_messages, tail.messages)
                 /\ tail' = NoTail
                 /\ stateFile' = Touch(stateFile)
                 /\ Log(<<"syslog_error">>)
                 /\ Bump(failed)
                 /\ pc' = "upd"
            ELSE /\ stateFile' = StateEmpty
                 /\ pc' = "savewrite"
                 /\ UNCHANGED <<all_messages, tail, logFile, nextId, nfaults>>
    /\ UNCHANGED <<last_daily_check, iter, config, logWritable, authLog, now,
                   appends, rotations, kills, sendVars, phaseVars, readVars>>
    /\ UNCHANGED answer

\* (a variant that stores the position after the next byte)
OneTooFar(position) == StateInt(position + 1)

\* The position the file gets: str(position)
SavedPosition(position) == StateInt(position)

\* save_last_position, second half: f.write(str(position)) and the close;
\* then check_system_errors returns its messages
SaveWrite(E) ==
    /\ pc = "savewrite"
    /\ \E failed \in MayFail(E) :
         /\ stateFile' = IF failed THEN stateFile ELSE SavedPosition(tail.pos)
         /\ Log(IF failed THEN <<"syslog_error">> ELSE <<>>)
         /\ Bump(failed)
         /\ raised' = failed
    /\ all_messages' = Extend(all_messages, tail.messages)
    /\ tail' = NoTail
    /\ pc' = "upd"
    /\ UNCHANGED <<last_daily_check, iter, config, logWritable, authLog, now,
                   appends, rotations, kills, sendVars, phaseVars, readVars>>
    /\ UNCHANGED answer

\* all_messages.extend(check_pending_updates())
CheckPendingUpdates(E) ==
    /\ pc = "upd"
    /\ ran' = Append(ran, pc)
    /\ pc' = "units"
    /\ \E failed \in MayFail(E), n \in E.updates :
         /\ all_messages' =
                Extend(all_messages, IF failed THEN <<>> ELSE check_pending_updates(n))
         /\ Log(IF failed THEN <<"updates_error">> ELSE <<>>)
         /\ Bump(failed)
    /\ UNCHANGED <<last_daily_check, tail, iter, config, logWritable, stateFile,
                   authLog, now, appends, rotations, kills, sendVars, ext,
                   lastExtEnd, tailVars>>
    /\ UNCHANGED answer

\* all_messages.extend(check_services_status())
CheckServicesStatus(E) ==
    /\ pc = "units"
    /\ ran' = Append(ran, pc)
    /\ pc' = "mark"
    /\ \E failed \in MayFail(E), n \in E.units :
         /\ all_messages' =
                Extend(all_messages, IF failed THEN <<>> ELSE check_services_status(n))
         /\ Log(IF failed THEN <<"units_error">> ELSE <<>>)
         /\ Bump(failed)
    /\ UNCHANGED <<last_daily_check, tail, iter, config, logWritable, stateFile,
                   authLog, now, appends, rotations, kills, sendVars, ext,
                   lastExtEnd, tailVars>>
    /\ UNCHANGED answer

\* last_daily_check = datetime.now()
Mark ==
    /\ pc = "mark"
    /\ last_daily_check' = now
    /\ lastExtEnd' = now
    /\ ext' = "done"
    /\ pc' = "dispatch"
    /\ UNCHANGED <<all_messages, tail, iter, fileVars, envVars, sendVars, ran, tailVars>>
    /\ UNCHANGED answer

\* (a variant that sends whatever the list holds)
AlwaysSend(msgs) == TRUE

\* "if all_messages:"
ShouldSend(msgs) == msgs # <<>>

\* The ids of the log lines among the findings
LineIds(msgs) == {msgs[i].n : i \in {j \in DOMAIN msgs : msgs[j].kind = "syserr"}}

\* send_webhook(message): no POST without a config or a webhook URL; one
\* POST otherwise, its failure logged
send_webhook(E, message, lines) ==
    /\ calls' = calls + 1
    /\ \E cfgFailed \in LoadFailures(E), outcome \in E.post :
         LET cfg == IF cfgFailed THEN NoConfig ELSE config
             webhook_url == Strip(cfg.webhook_url)
             sends == ~ConfigMissing(cfg) /\ webhook_url # <<>>
             postFailed == sends /\ outcome = "fail"
         IN  /\ (postFailed => TRUE \in MayFail(E) /\ ~cfgFailed)
             /\ posts' = posts + (IF sends THEN 1 ELSE 0)
             /\ posted' = IF sends THEN message ELSE posted
             /\ postedOk' = (sends /\ ~postFailed)
             /\ deliveredIds' = IF sends /\ ~postFailed THEN deliveredIds \cup lines
                                ELSE deliveredIds
             /\ redelivered' = IF sends /\ ~postFailed
                                THEN redelivered \cup (lines \cap deliveredIds)
                                ELSE redelivered
             /\ Log((IF cfgFailed THEN <<"config_error">> ELSE <<>>)
                    \o (IF ConfigMissing(cfg) THEN <<"config_missing">>
                        ELSE IF webhook_url = <<>> THEN <<"webhook_unset">>
                        ELSE IF postFailed THEN <<"webhook_error">>
                        ELSE <<>>))
             /\ Bump(cfgFailed \/ postFailed)

\* "if all_messages: send_webhook("\n".join(all_messages))"
Dispatch(E) ==
    /\ pc = "dispatch"
    /\ pc' = "sleep"
    /\ IF ShouldSend(all_messages)
       THEN send_webhook(E, Join(all_messages), LineIds(all_messages))
       ELSE UNCHANGED <<sendVars, logFile, nextId, nfaults>>
    /\ UNCHANGED <<all_messages, last_daily_check, tail, iter, config, logWritable,
                   stateFile, authLog, now, appends, rotations, kills, phaseVars,
                   tailVars>>
    /\ UNCHANGED answer

\* time.sleep(CHECK_INTERVAL)
Sleep(E) ==
    /\ pc = "sleep"
    /\ \E d \in E.sleep : now' = now + d
    /\ pc' = "loop"
    /\ UNCHANGED <<all_messages, last_daily_check, tail, iter, fileVars, nfaults,
                   appends, rotations, kills, sendVars, phaseVars, tailVars>>
    /\ UNCHANGED answer

\* One step of the daemon process
Daemon(E) ==
    \/ Start
    \/ BeginIteration
    \/ CheckCpu(E)
    \/ CheckMemory(E)
    \/ CheckDisk(E)
    \/ CheckRunningServices(E)
    \/ Gate
    \/ CheckSecurity(E)
    \/ clear_ssh_attempts(E)
    \/ ReadLog(E)
    \/ SaveOpen(E)
    \/ SaveWrite(E)
    \/ CheckPendingUpdates(E)
    \/ CheckServicesStatus(E)
    \/ Mark
    \/ Dispatch(E)
    \/ Sleep(E)

(* --------------------------- the environment --------------------------- *)
\* The lengths of the lines other processes write: that of log_message's own
\* lines, and twice that
LineLens == {2, 4}

\* Another process (a CLI command's log_message, a logger) appends a line
AppendLine ==
    /\ appends < MaxAppends
    /\ \E len \in LineLens, kw \in BOOLEAN :
         logFile' = Append(logFile, [id |-> nextId, len |-> len,
                                     kw |-> IF kw THEN len ELSE 0, msg |-> "ext"])
    /\ nextId' = nextId + 1
    /\ appends' = appends + 1
    /\ UNCHANGED <<procVars, config, logWritable, stateFile, authLog, now, nfaults,
                   rotations, kills, sendVars, phaseVars, prevSize, lastSize,
                   readFrom, consumed, due, raised>>
    /\ seen' = seen
    /\ UNCHANGED answer

\* logrotate: LOG_FILE starts again, empty
Rotate ==
    /\ rotations < MaxRotations
    /\ logFile # <<>>
    /\ logFile' = <<>>
    /\ seen' = 0
    /\ rotations' = rotations + 1
    /\ UNCHANGED <<procVars, config, logWritable, stateFile, authLog, nextId, now,
                   nfaults, appends, kills, sendVars, phaseVars, prevSize, lastSize,
                   readFrom, consumed, due, raised>>
    /\ UNCHANGED answer

\* SIGKILL: the process and its locals are gone, the files stay as they are
Kill ==
    /\ pc \notin {"stopped", "crashed"}
    /\ kills < MaxKills
    /\ kills' = kills + 1
    /\ pc' = "stopped"
    /\ all_messages' = <<>>
    /\ last_daily_check' = 0
    /\ tail' = NoTail
    /\ iter' = 0
    /\ UNCHANGED <<fileVars, now, nfaults, appends, rotations, sendVars, phaseVars,
                   tailVars>>
    /\ UNCHANGED answer

(* ------------------------------- the CLI ------------------------------- *)
\* What may be typed at a prompt: service names, commas and spaces
Alphabet == {" ", ",", "m", "n"}

RECURSIVE Strings(_)
Strings(n) ==
    IF n = 0 THEN {<<>>}
    ELSE Strings(n - 1) \cup {Append(t, c) : t \in Strings(n - 1), c \in Alphabet}

Inputs == Strings(MaxInput)

\* The order of characters (their code points), and of strings by it
Code(c) == CASE c = " " -> 32 [] c = "," -> 44 [] c = "m" -> 109 [] c = "n" -> 110
                [] c = "u" -> 117

RECURSIVE Before(_, _)
Before(a, b) ==
    IF a = <<>> THEN b # <<>>
    ELSE IF b = <<>> THEN FALSE
    ELSE IF Head(a) # Head(b) THEN Code(Head(a)) < Code(Head(b))
    ELSE Before(Tail(a), Tail(b))

\* sorted(services), for a set of strings
RECURSIVE Sorted(_)
Sorted(set) ==
    IF set = {} THEN <<>>
    ELSE LET least == CHOOSE a \in set : \A b \in set \ {a} : Before(a, b)
         IN  <<least>> \o Sorted(set \ {least})

\* ",".join(names)
RECURSIVE JoinComma(_)
JoinComma(names) ==
    IF names = <<>> THEN <<>>
    ELSE IF Len(names) = 1 THEN Head(names)
    ELSE Head(names) \o <<COMMA>> \o JoinComma(Tail(names))

\* save_config(config): ensure_dirs() and the dump
SaveConfig(c) ==
    /\ config' = c
    /\ stateFile' = Touch(stateFile)
    /\ UNCHANGED <<procVars, logFile, logWritable, authLog, nextId, envVars,
                   sendVars, phaseVars, tailVars, answer>>

\* ServerStriker -init: the three answers, stripped, stored as typed
init_config ==
    \E url \in {<<>>, UrlU}, services \in Inputs :
        /\ Len(Strip(services)) <= MaxStored
        /\ SaveConfig(MkConfig(Strip(url), Strip(services)))

\* ServerStriker -setwebhook (a call that changes no file is a stuttering
\* step and is left out)
set_webhook ==
    \E url \in {<<>>, UrlU} :
        LET webhook == Strip(url)
        IN  /\ webhook # config.webhook_url \/ ~config.present \/ stateFile = StateMissing
            /\ SaveConfig(MkConfig(webhook, config.services))

\* ServerStriker -addservice: the answer joins the set of the stored names,
\* which is stored sorted and joined by commas
add_service ==
    \E typed \in Inputs :
        LET current == config.services
            new_service == Strip(typed)
            services == {SplitServices(current)[i] : i \in DOMAIN SplitServices(current)}
                        \cup (IF new_service # <<>> THEN {new_service} ELSE {})
            stored == JoinComma(Sorted(services))
        IN  /\ Len(stored) <= MaxStored
            /\ SaveConfig(MkConfig(config.webhook_url, stored))

(* --------------------------- specifications ---------------------------- *)
\* The daemon on a host where any external call may fail
Init == InitOf(FaultEnv)
Next == Daemon(FaultEnv)
Spec == Init /\ [][Next]_vars

\* The daemon on a host where the guarded external calls may fail
InitCaught == InitOf(CaughtEnv)
NextCaught == Daemon(CaughtEnv)
SpecCaught == InitCaught /\ [][NextCaught]_vars

\* The daemon on a busy host whose log other processes write too
InitBusy == InitOf(BusyEnv)
NextBusy == Daemon(BusyEnv) \/ AppendLine
SpecBusy == InitBusy /\ [][NextBusy]_vars

\* The tailer on a healthy host whose log other processes write and rotate
InitTail == InitOf(CalmEnv)
NextTail == Daemon(CalmEnv) \/ AppendLine \/ Rotate
SpecTail == InitTail /\ [][NextTail]_vars

\* The daemon on a healthy host, killed and started again
KillEnv == [CalmEnv EXCEPT !.sleep = {CHECK_INTERVAL}]
InitKill == InitOf(KillEnv)
NextKill == Daemon(KillEnv) \/ AppendLine \/ Kill
SpecKill == InitKill /\ [][NextKill]_vars

\* The daemon watching two services
InitServices == InitOf(ServicesEnv)
NextServices == Daemon(ServicesEnv)
SpecServices == InitServices /\ [][NextServices]_vars

\* The CLI commands that write the configuration, before any daemon runs
CliEnv == [CalmEnv EXCEPT !.configs = {NoConfig}]
InitCli == InitOf(CliEnv)
NextCli == init_config \/ set_webhook \/ add_service
SpecCli == InitCli /\ [][NextCli]_vars

\* The daemon started with a STATE_FILE that holds no offset
InitState == InitOf(StateEnv)
NextState == Daemon(StateEnv)
SpecState == InitState /\ [][NextState]_vars

\* The daemon on a host with failed logins
InitLogins == InitOf(LoginsEnv)
NextLogins == Daemon(LoginsEnv)
SpecLogins == InitLogins /\ [][NextLogins]_vars

\* The daemon killed and started again on a host whose log is rotated
InitRestart == InitOf(KillEnv)
NextRestart == Daemon(KillEnv) \/ AppendLine \/ Rotate \/ Kill
SpecRestart == InitRestart /\ [][NextRestart]_vars

(* ------------------------------- claims -------------------------------- *)
\* What the reads took, as whole lines
RECURSIVE TakenIds(_)
TakenIds(taken) ==
    IF taken = <<>> THEN <<>> ELSE <<Head(taken).id>> \o TakenIds(Tail(taken))

TookWholeLines == \A i \in DOMAIN consumed : consumed[i].skip = 0

\* C1: under appends and rotations of LOG_FILE interleaved with tailer reads,
\* the reads take, in order and each once and whole, exactly the lines that
\* were in the file at some read (lines a rotation removed before any read
\* are left out of the account): no line is skipped, none is taken twice.
C1_ExactlyOnce == TookWholeLines /\ TakenIds(consumed) = due

\* C2: when LOG_FILE is smaller at a tailer read than it was at the tailer
\* read before (of this process or of the one before a restart), the read
\* starts at position 0, and no exception is raised in it.
C2_RotationRestartsAtZero ==
    (prevSize >= 0 /\ lastSize < prevSize) => (readFrom = 0 /\ ~raised)

Range(seq) == {seq[i] : i \in DOMAIN seq}

Kinds(msgs) == {msgs[i].kind : i \in DOMAIN msgs}

\* C3: a failure of any probe's external call stays inside the check: it
\* never ends run_daemon, the iteration still calls every other probe, and
\* the list still holds the other probes' findings.
C3_ProbeFailuresIsolated ==
    /\ pc # "crashed"
    /\ (pc = "dispatch" /\ ext = "done") =>
         /\ {"cpu", "mem", "disk", "svc", "dcpu", "dmem", "ddisk", "dsvc", "sec",
             "syserr", "upd", "units"} \subseteq Range(ran)
         /\ {"cpu", "mem", "disk"} \subseteq Kinds(all_messages)

\* C4: in an iteration whose list of findings is empty, send_webhook is not
\* called and nothing is POSTed.
C4_NoDispatchWhenEmpty ==
    (pc \in {"dispatch", "sleep"} /\ all_messages = <<>>) => (calls = 0 /\ posts = 0)

\* C4's case: an iteration has ended with nothing to report
C4_Witness == pc = "sleep" /\ all_messages = <<>> /\ iter = 2

\* C5: the first iteration of a process runs the extended phase, and a later
\* iteration runs it only when at least 24 hours have passed since the end of
\* the extended phase before.
C5_ExtendedFirstThenDaily ==
    /\ (iter = 1 /\ pc \in {"dispatch", "sleep"}) => ext = "done"
    /\ (ext = "running" /\ lastExtEnd >= 0) => now - lastExtEnd >= DAY

\* C5's case: a second iteration, one second short of 24 hours after the
\* first one's extended phase, has gone without it
C5_Witness ==
    /\ iter = 2 /\ pc = "dispatch" /\ ext = "no"
    /\ lastExtEnd >= 0 /\ now - lastExtEnd = DAY - 1

\* C6: an iteration whose gate finds at least 24 hours elapsed since
\* last_daily_check runs the extended phase (it is skipped only when less has
\* elapsed), and the phase leaves last_daily_check at the time it ended.
C6_NeverSkipped ==
    /\ (pc = "dispatch" /\ ext = "no") => now - last_daily_check < DAY
    /\ (pc = "dispatch" /\ ext = "done") => last_daily_check = now

\* C6's case: the gate of a second iteration finds exactly 24 hours elapsed
\* and the extended phase starts
C6_Witness ==
    iter = 2 /\ pc = "dcpu" /\ ext = "running" /\ now - last_daily_check = DAY

HasLine(msg) == \E i \in DOMAIN logFile : logFile[i].msg = msg

\* C7: an iteration with findings calls send_webhook once, which POSTs at
\* most once; a failed POST is logged; and the next iteration starts with an
\* empty list, whatever became of the delivery before.
C7_AtMostOnceDelivery ==
    /\ calls <= 1 /\ posts <= calls
    /\ (pc = "sleep" /\ all_messages # <<>>) => calls = 1
    /\ (pc = "sleep" /\ posts = 1 /\ ~postedOk /\ logWritable) =>
         (logFile # <<>> /\ logFile[Len(logFile)].msg = "webhook_error")
    /\ (pc = "cpu" => all_messages = <<>>)

\* C7's case: an iteration begins after one whose POST failed
C7_Witness == iter = 2 /\ pc = "cpu" /\ HasLine("webhook_error")

\* The text log_message was given for the line with this id
MsgOfLine(id) ==
    IF \E i \in DOMAIN logFile : logFile[i].id = id
    THEN logFile[CHOOSE i \in DOMAIN logFile : logFile[i].id = id].msg
    ELSE "gone"

\* C8: no POSTed message holds the text of an operational error the agent
\* logged, and no operational failure ends the daemon's loop.
C8_ErrorsOnlyInLog ==
    /\ \A i \in DOMAIN posted :
         posted[i].kind = "syserr" => MsgOfLine(posted[i].n) \notin OpErrorMsgs
    /\ pc # "crashed"

\* C9: after a kill and a restart no log line is delivered a second time, and
\* the first iteration of the new process runs the extended phase.
C9_RestartIdempotent ==
    /\ redelivered = {}
    /\ (kills > 0 /\ iter = 1 /\ pc \in {"dispatch", "sleep"}) => ext = "done"

\* Where a finding belongs in an iteration's list: by probe, the services in
\* the configuration's order, the log lines in the file's order
ServiceIndex(name) ==
    LET services == SplitServices(config.services)
    IN  IF \E i \in DOMAIN services : services[i] = name
        THEN CHOOSE i \in DOMAIN services : services[i] = name
        ELSE 0

Place(f) ==
    CASE f.kind = "cpu" -> <<1, 0>>
      [] f.kind = "mem" -> <<2, 0>>
      [] f.kind = "disk" -> <<3, 0>>
      [] f.kind \in {"down", "up"} -> <<4, ServiceIndex(f.s)>>
      [] f.kind = "security" -> <<5, 0>>
      [] f.kind = "syserr" -> <<6, f.n>>
      [] f.kind = "updates" -> <<7, 0>>
      [] f.kind = "units" -> <<8, 0>>

Earlier(a, b) == a[1] < b[1] \/ (a[1] = b[1] /\ a[2] < b[2])

Ascending(msgs) ==
    \A i \in 1 .. Len(msgs) - 1 : Earlier(Place(msgs[i]), Place(msgs[i + 1]))

FrequentPart(msgs) ==
    Ascending(msgs) /\ Kinds(msgs) \subseteq {"cpu", "mem", "disk", "down"}

ExtendedPart(msgs) ==
    /\ Ascending(msgs)
    /\ Len(msgs) >= 3
    /\ msgs[1].kind = "cpu" /\ msgs[2].kind = "mem" /\ msgs[3].kind = "disk"

InOrder(msgs, extended) ==
    IF extended
    THEN \E k \in 0 .. Len(msgs) :
           FrequentPart(SubSeq(msgs, 1, k)) /\ ExtendedPart(SubSeq(msgs, k + 1, Len(msgs)))
    ELSE FrequentPart(msgs)

IsJoinOf(text, msgs) ==
    /\ Len(text) = IF msgs = <<>> THEN 0 ELSE 2 * Len(msgs) - 1
    /\ \A i \in DOMAIN msgs : text[2 * i - 1] = msgs[i]
    /\ \A i \in 1 .. Len(msgs) - 1 : text[2 * i] = NL

\* C10: the list an iteration dispatches holds the frequent findings (CPU,
\* memory, disk, services down) and then, when the extended phase ran, the
\* verbose CPU, memory, disk and service findings, the security finding, the
\* log findings in the file's order, the updates and the failed units; the
\* POSTed message is that list joined by newlines.
C10_DispatchOrder ==
    /\ pc \in {"dispatch", "sleep"} => InOrder(all_messages, ext = "done")
    /\ posts = 1 => IsJoinOf(posted, all_messages)

\* C10's case: a POST of twelve findings, one of every probe in either mode
C10_Witness ==
    /\ pc = "sleep" /\ posts = 1 /\ ext = "done"
    /\ Len(all_messages) = 12
    /\ Kinds(all_messages) =
         {"cpu", "mem", "disk", "down", "security", "syserr", "updates", "units"}

\* How many times x occurs in seq
RECURSIVE Count(_, _)
Count(seq, x) ==
    IF seq = <<>> THEN 0 ELSE (IF Head(seq) = x THEN 1 ELSE 0) + Count(Tail(seq), x)

SecurityFindings(msgs) == Len(SelectSeq(msgs, LAMBDA f : f.kind = "security"))

\* The step of check_security_logs and the test on its count: with more than
\* LOGIN_LIMIT lines counted, one finding that names the count is added and
\* the remediation is next; otherwise nothing is added and it is passed over
SecurityStep ==
    (pc = "sec" /\ pc' \in {"clear", "syserr"}) =>
        LET counted == IF nfaults' = nfaults THEN check_security_logs(authLog) ELSE 0
        IN  IF counted > LOGIN_LIMIT
            THEN /\ pc' = "clear"
                 /\ all_messages' = Append(all_messages, Finding("security", counted, <<>>))
            ELSE /\ pc' = "syserr"
                 /\ all_messages' = all_messages

\* C11: a count of failed logins above 5 gives exactly one security finding
\* and one call of the remediation in that iteration, a count of 5 or fewer
\* gives neither; the remediation runs at most once in an iteration, and
\* only in one that runs the extended phase.
C11_SecurityAlertOnce ==
    /\ [][SecurityStep]_vars
    /\ [](/\ Count(ran, "clear") <= 1
          /\ SecurityFindings(all_messages)
               = Count(ran, "clear") + (IF pc = "clear" THEN 1 ELSE 0)
          /\ (pc = "clear" \/ Count(ran, "clear") > 0) => ext # "no")

\* C11's case: six failed logins counted, alerted and the remediation called
C11_Witness ==
    /\ pc = "syserr" /\ Count(ran, "clear") = 1
    /\ \E i \in DOMAIN all_messages : all_messages[i] = Finding("security", 6, <<>>)

\* The findings a call added to the list
Added(before, after) == SubSeq(after, Len(before) + 1, Len(after))

\* What check_running_services is to report for the i-th service, given what
\* systemctl is-active printed for it
ServiceReport(name, state, show) ==
    IF state # "active" THEN <<Finding("down", 0, name)>>
    ELSE IF show THEN <<Finding("up", 0, name)>>
    ELSE <<>>

\* The step of check_running_services: for every service of the
\* configuration whose state systemctl gave, the list gains that service's
\* report, and it gains nothing else
ServicesStep ==
    (pc \in {"svc", "dsvc"} /\ pc' = After(pc)) =>
        LET a == answer'
            added == Added(all_messages, all_messages')
            asked == {i \in DOMAIN a.services : i # a.bad}
            reports(i) == ServiceReport(a.services[i], a.out[i], pc = "dsvc")
        IN  /\ all_messages' = all_messages \o added
            /\ a.bad = 0 /\ nfaults' = nfaults => a.services = SplitServices(config.services)
            /\ \A i \in asked : \A f \in Range(reports(i)) : Count(added, f) = 1
            /\ \A k \in DOMAIN added : \E i \in asked : <<added[k]>> = reports(i)

\* C12: for every service of the configuration and both modes, a state other
\* than "active" gives the service's "is down" finding, "active" gives none in
\* quiet mode and the "is up" finding in verbose mode.
C12_ServiceFindings == [][ServicesStep]_vars

\* C12's case: the first service active and the second one not, in quiet
\* mode: one finding, for the second
C12_Witness ==
    /\ pc = "gate" /\ answer.probe = "svc"
    /\ answer.services = <<<<"n">>, <<"m">>>> /\ answer.out = <<"active", "inactive">>
    /\ all_messages = <<Finding("down", 0, <<"m">>)>>

\* The resource a usage probe samples
Resource(p) ==
    CASE p \in {"cpu", "dcpu"} -> "cpu"
      [] p \in {"mem", "dmem"} -> "mem"
      [] p \in {"disk", "ddisk"} -> "disk"

\* The step of a usage probe that got its sample: in quiet mode the list
\* gains the resource's finding when the sample is above 80 and nothing
\* otherwise; in verbose mode it gains the finding whatever the sample
SampleStep ==
    (pc \in {"cpu", "mem", "disk", "dcpu", "dmem", "ddisk"} /\ pc' = After(pc)) =>
        LET usage == answer'.usage
            verbose == pc \in {"dcpu", "dmem", "ddisk"}
            added == Added(all_messages, all_messages')
        IN  /\ all_messages' = all_messages \o added
            /\ answer'.probe = pc
            /\ Len(added) = (IF verbose \/ usage > 80 THEN 1 ELSE 0)
            /\ \A k \in DOMAIN added : added[k] = Finding(Resource(pc), usage, <<>>)

\* C13: a quiet call of the CPU, memory or disk probe gives a finding if and
\* only if the sampled usage is above 80 (none at exactly 80), and a verbose
\* call always gives exactly one.
C13_UsageThreshold == [][SampleStep]_vars

\* C13's case: a quiet sample of exactly 80 has given nothing, and the quiet
\* sample after it, of 81, a finding
C13_Witness ==
    /\ pc = "disk" /\ answer = Sampled("mem", THRESHOLD + 1)
    /\ all_messages = <<Finding("mem", THRESHOLD + 1, <<>>)>>

\* LOG_FILE ends with the line log_message wrote for msg
LastLogged(msg) == logFile # <<>> /\ logFile[Len(logFile)].msg = msg

\* CONFIG_FILE gives send_webhook nothing to POST to
Unconfigured == ~config.present \/ Strip(config.webhook_url) = <<>>

\* C14: with findings to send and no configuration, or one without a webhook
\* URL, send_webhook POSTs nothing, logs which of the two it is, and returns:
\* the iteration goes on to its sleep.
C14_UnconfiguredIsQuiet ==
    /\ [](pc = "sleep" /\ all_messages # <<>> /\ Unconfigured =>
            /\ calls = 1 /\ posts = 0
            /\ logWritable =>
                 IF config.present
                 THEN LastLogged("webhook_unset") \/ LastLogged("config_missing")
                 ELSE LastLogged("config_missing"))
    /\ [][pc = "dispatch" /\ all_messages # <<>> /\ Unconfigured => pc' = "sleep"]_vars

\* C14's case: findings, a configuration with an empty webhook URL, and the
\* iteration has come to its sleep with the condition logged
C14_Witness ==
    /\ pc = "sleep" /\ all_messages # <<>>
    /\ config.present /\ config.webhook_url = <<>>
    /\ calls = 1 /\ LastLogged("webhook_unset")

\* C15: after any sequence of init_config, set_webhook and add_service, the
\* list _split_services makes of the stored services has no empty entry and
\* no entry twice.
C15_ServicesAreASet ==
    LET services == SplitServices(config.services)
    IN  /\ \A i \in DOMAIN services : services[i] # <<>>
        /\ \A i, j \in DOMAIN services : services[i] = services[j] => i = j

\* A step of check_system_errors that ends it with an exception caught
TailerFails == pc \in {"syserr", "savepos", "savewrite"} /\ raised' /\ pc' = "upd"

\* The offset STATE_FILE held when the call began
OffsetAtCall == IF pc = "syserr" THEN read_last_position(stateFile) ELSE tail.stored

\* C16: when check_system_errors fails at any step (the size, the open, the
\* seek, the lines, the save of the offset), the error is logged and the
\* persisted offset is what it was before the call, so that the next extended
\* cycle reads the same lines again.
C16_FailedReadKeepsOffset ==
    [][TailerFails =>
         /\ read_last_position(stateFile') = OffsetAtCall
         /\ logWritable => logFile' # <<>> /\ logFile'[Len(logFile')].msg = "syslog_error"]_vars

\* STATE_FILE holds a number that is not negative, or nothing
OffsetIsNatural ==
    /\ stateFile.kind \in {"missing", "empty", "int"}
    /\ read_last_position(stateFile) >= 0

WithoutFailed(auth) == SelectSeq(auth, LAMBDA line : ~line.failed)

\* C18: a remediation that succeeds removes from auth.log the lines with
\* "Failed password", which the security check counted, and no other line; a
\* security check right after it counts 0.
C18_RemovesWhatWasCounted ==
    [][(pc = "clear" /\ pc' = "syserr" /\ nfaults' = nfaults) =>
         /\ authLog' = WithoutFailed(authLog)
         /\ check_security_logs(authLog') = 0]_vars

\* C19: whatever STATE_FILE holds (nothing, text that is no number, a
\* negative number, a file that cannot be read), the tailer takes the offset
\* to be 0 and reads LOG_FILE from its start; the loop does not end, and no
\* tailer read fails for it.
C19_CorruptOffsetIsZero ==
    /\ pc # "crashed"
    /\ lastSize >= 0 => ~raised
    /\ (lastSize >= 0 /\ prevSize = -1) => readFrom = 0

\* The statements of save_last_position, called by check_system_errors
InSave == pc \in {"savepos", "savewrite"}

\* C20: the persisted offset changes only in save_last_position called by
\* check_system_errors, and last_daily_check of a running process only at the
\* end of an extended phase: an iteration without the extended phase leaves
\* both as they are, and one with it calls check_system_errors, and with it
\* save_last_position, at most once.
C20_OffsetWrittenOncePerScan ==
    /\ [][/\ read_last_position(stateFile') # read_last_position(stateFile) =>
               InSave /\ ext = "running"
          /\ (last_daily_check' # last_daily_check /\ pc # "stopped") =>
               pc = "mark" /\ ext = "running"]_vars
    /\ [](/\ Count(ran, "syserr") <= 1
          /\ InSave => (ext = "running" /\ ran[Len(ran)] = "syserr"))

\* C20's case: an iteration without the extended phase has ended, with the
\* offset and last_daily_check as the extended phase before it left them
C20_Witness ==
    /\ iter = 2 /\ pc = "sleep" /\ ext = "no"
    /\ stateFile.kind = "int" /\ stateFile.val > 0
    /\ last_daily_check = lastExtEnd

====
